---- MODULE Spec2Model ----
(***************************************************************************)
(* Request-lifecycle controller and shutdown orchestrator of main.go.      *)
(*                                                                         *)
(* Three kinds of goroutine run concurrently:                              *)
(*   - main (lines 66-73): stores healthy = 1, ListenAndServe, <-done;     *)
(*   - the signal goroutine (lines 51-64): <-quit, stores healthy = 0,     *)
(*     SetKeepAlivesEnabled(false), Shutdown(ctx), close(done);            *)
(*   - one goroutine per accepted connection, which runs the handler       *)
(*     chain tracing(logging(routes)).                                     *)
(* The net/http server is modelled by its documented behaviour: Shutdown   *)
(* marks the server as shutting down, then closes the listener, closes     *)
(* idle connections and polls until no connection is active or its         *)
(* context expires; it never interrupts an active connection.  A           *)
(* connection stays active until the handler chain has returned and the    *)
(* server has finished the response.  The server keeps a connection's     *)
(* state in its books and updates it only after it has read a request, so  *)
(* a connection it closes as idle may have a request that goes on to run.  *)
(* logger.Fatalf ends the whole process.                                   *)
(***************************************************************************)
EXTENDS Integers, Sequences, FiniteSets

\* ---------------------------------------------------------------- bounds
NumConns == 2      \* client connections that may be opened
MaxReqs == 2       \* requests handed to the Handler over all connections
ClockStart == 9    \* first reading of the clock
MaxClock == 10     \* last reading of the clock

\* ------------------------------------------------------ program constants
QuitCap == 1       \* make(chan os.Signal, 1)

Conns == 1..NumConns

\* Inbound values of the X-Request-Id header: absent, empty, given.
HeaderValues == {<<>>, <<"">>, <<"abc">>}
Paths == {"/health", "/hello"}
Methods == {"GET"}

\* Request lines the mux treats in ways of its own: a path it redirects, a
\* CONNECT (whose path it takes as it is) and the target "*".
OddTargets == {<<"GET", "//hello">>, <<"CONNECT", "//hello">>, <<"GET", "*">>}

VARIABLES
  healthy,    \* var healthy int32
  quit,       \* number of signals buffered in the channel quit
  done,       \* TRUE once close(done) has run
  mainpc,     \* position of the main goroutine
  sigpc,      \* position of the signal goroutine
  orch,       \* the steps the signal goroutine has taken, in order
  ctx,        \* the context of line 56: "none", "active", "expired", "cancelled"
  keepAlives, \* FALSE once SetKeepAlivesEnabled(false) has run
  inShutdown, \* TRUE once Shutdown has marked the server as shutting down
  listener,   \* "none", "open", "closed"
  proc,       \* "running", "exited" (main returned), "fatal" (os.Exit(1))
  stdout,     \* the set of server messages written to the logger
  nlogged,    \* number of access-log lines written to the logger
  lastLine,   \* the request id of the access-log line written last, as
              \* <<id>> (<<>> before the first line); the line's other fields
              \* are copied from the request and are not modelled
  conn,       \* per connection: its state and the request it is serving
  now,        \* the reading time.Now().UnixNano() gives
  nreqs       \* requests handed to the server's Handler so far

vars == <<healthy, quit, done, mainpc, sigpc, orch, ctx, keepAlives, inShutdown,
          listener, proc, stdout, nlogged, lastLine, conn, now, nreqs>>

mainVars == <<mainpc, listener>>
sigVars == <<sigpc, orch, ctx, keepAlives, inShutdown, done>>
envVars == <<quit, now>>
logVars == <<nlogged, lastLine>>
reqVars == <<logVars, conn, nreqs>>

\* ------------------------------------------------------- pure functions

Digit(d) ==
  CASE d = 0 -> "0" [] d = 1 -> "1" [] d = 2 -> "2" [] d = 3 -> "3" [] d = 4 -> "4"
    [] d = 5 -> "5" [] d = 6 -> "6" [] d = 7 -> "7" [] d = 8 -> "8" [] d = 9 -> "9"

\* fmt.Sprintf("%d", n) for n >= 0: the decimal digits of n.
RECURSIVE FormatInt(_)
FormatInt(n) == IF n < 10 THEN Digit(n) ELSE FormatInt(n \div 10) \o Digit(n % 10)

\* nextRequestID: the clock reading, formatted.
nextRequestID(t) == FormatInt(t)

\* http.Header.Get: the first value of the key, "" when the key is absent.
HeaderGet(values) == IF Len(values) = 0 THEN "" ELSE values[1]

\* A tracing stage without the fallback: the inbound value is used as it is.
TracingIDVerbatim(values, t) == HeaderGet(values)

\* The id the tracing stage settles on (lines 171-174).
TracingID(values, t) ==
  IF HeaderGet(values) = "" THEN nextRequestID(t) ELSE HeaderGet(values)

\* The i-th character of the string p.
Char(p, i) == SubSeq(p, i, i)

\* The elements of p between its slashes, from position i on; cur is the
\* element read so far.
RECURSIVE Segments(_, _, _)
Segments(p, i, cur) ==
  IF i > Len(p) THEN <<cur>>
  ELSE IF Char(p, i) = "/" THEN <<cur>> \o Segments(p, i + 1, "")
  ELSE Segments(p, i + 1, cur \o Char(p, i))

\* path.Clean on the elements of a rooted path: empty and "." elements are
\* dropped, ".." drops the element before it (at the root, itself).
RECURSIVE Resolve(_, _)
Resolve(segs, kept) ==
  IF segs = <<>> THEN kept
  ELSE LET e == Head(segs) IN
    IF e = "" \/ e = "." THEN Resolve(Tail(segs), kept)
    ELSE IF e = ".."
      THEN Resolve(Tail(segs),
                   IF kept = <<>> THEN kept ELSE SubSeq(kept, 1, Len(kept) - 1))
      ELSE Resolve(Tail(segs), Append(kept, e))

RECURSIVE Join(_)
Join(segs) == IF segs = <<>> THEN "" ELSE "/" \o Head(segs) \o Join(Tail(segs))

\* path.Clean of a rooted path.
Clean(p) ==
  LET joined == Join(Resolve(Segments(p, 1, ""), <<>>)) IN
    IF joined = "" THEN "/" ELSE joined

\* cleanPath of the ServeMux: the canonical path, with a leading slash,
\* without "." and ".." elements and doubled slashes; a trailing slash is
\* kept.
cleanPath(p) ==
  IF p = "" THEN "/"
  ELSE LET rooted == IF Char(p, 1) = "/" THEN p ELSE "/" \o p
           np == Clean(rooted)
       IN IF Char(rooted, Len(rooted)) = "/" /\ np # "/" THEN np \o "/" ELSE np

\* routes(): the handler the ServeMux picks for a request.  The target "*"
\* is answered by the mux itself with 400; a path that is not canonical,
\* unless the method is CONNECT, with a redirect to the canonical one.
\* Otherwise the pattern equal to the path wins, "/" matches every other
\* path that begins with a slash, and nothing matches the rest.
routes(method, path) ==
  IF path = "*" THEN "BadRequest"
  ELSE IF method # "CONNECT" /\ cleanPath(path) # path THEN "RedirectHandler"
  ELSE CASE path = "/health" -> "healthHandler"
         [] path = "/hello" -> "helloHandler"
         [] path = "/json-as-text" -> "forceTextHandler"
         [] path # "" /\ Char(path, 1) = "/" -> "indexHandler"
         [] OTHER -> "NotFoundHandler"

\* The handlers of the mux itself: they write a status and do nothing else.
MuxHandlers == {"BadRequest", "RedirectHandler", "NotFoundHandler"}

\* A health handler that does not look at the flag.
healthHandlerAlways204(flag) == 204

\* healthHandler: 204 when the flag reads 1, 503 otherwise.
healthHandler(flag) == IF flag = 1 THEN 204 ELSE 503

\* The status a route handler writes.
HandlerStatus(method, path, flag) ==
  CASE routes(method, path) = "healthHandler" -> healthHandler(flag)
    [] routes(method, path) = "BadRequest" -> 400
    [] routes(method, path) = "RedirectHandler" -> 301
    [] routes(method, path) = "NotFoundHandler" -> 404
    [] routes(method, path) = "indexHandler" -> (IF path # "/" THEN 404 ELSE 500)
    [] OTHER -> 200

\* A logging stage without the !ok branch: a failed type assertion leaves "".
LoggedIDNoSentinel(ctxId) == IF Len(ctxId) = 0 THEN "" ELSE ctxId[1]

\* A logging stage that looks the id up under another key and never finds it.
LoggedIDWrongKey(ctxId) == "unknown"

\* The id the logging stage prints: the context value, or "unknown" (157-160).
LoggedID(ctxId) == IF Len(ctxId) = 0 THEN "unknown" ELSE ctxId[1]

\* A connection in state st serving a request: method and path are those of
\* the request line, hdr are the inbound values
\* of X-Request-Id, ctxId the value under requestIDKey in the request
\* context, respId the values of X-Request-Id on the response, status the
\* status written (0: none) and outcome how the route handler ended;
\* tracked is FALSE when the server has closed the connection and dropped
\* it from its books.
Request(st, method, hdr, path) ==
  [state |-> st, method |-> method, hdr |-> hdr, path |-> path, ctxId |-> <<>>, respId |-> <<>>,
   status |-> 0, outcome |-> "", tracked |-> TRUE]

\* A connection in state st that carries no request.
Bare(st) == Request(st, "", <<>>, "")

\* A connection the server has closed as idle, and dropped from its books,
\* after the connection's goroutine had read the next request and before
\* it stored http.StateActive: the handler chain is still to run.
Orphan == [Bare("orphan") EXCEPT !.tracked = FALSE]

\* Connection states of a request inside the handler chain or just out of
\* it: the route handler runs, it has ended and the deferred function of
\* logging is due, the line is written and the server finishes the response.
ChainStates == {"handler", "returned", "logged"}
InChain == {c \in Conns : conn[c].state \in ChainStates}

\* Connection states in which a request is in flight (http.StateActive):
\* those of the chain, and the server answering "OPTIONS *" itself.
ActiveStates == ChainStates \cup {"options"}
InFlight == {c \in Conns : conn[c].state \in ActiveStates}

\* closeIdleConns: the connections that are idle in the server's books, and
\* the new ones in stale (nothing read for 5 s), are closed and dropped
\* from the books; those in orphaned have a request read meanwhile.
CloseIdleConns(stale, orphaned) ==
  [c \in Conns |->
     IF conn[c].state = "idle" \/ c \in stale
       THEN IF c \in orphaned THEN Orphan ELSE Bare("closed")
       ELSE conn[c]]

\* closeIdleConns returns true: no connection in the books of cs is new or
\* active.
Quiescent(cs) ==
  \A c \in Conns : ~(cs[c].tracked /\ cs[c].state \in ActiveStates \cup {"new"})

\* The signal goroutine has run atomic.StoreInt32(&healthy, 0).
DrainStored == Len(orch) >= 1 /\ orch[1] = "set_draining"

Running == proc = "running"

\* seq with e appended unless seq holds e already.
AddOnce(seq, e) == IF \E i \in 1..Len(seq) : seq[i] = e THEN seq ELSE Append(seq, e)

\* ------------------------------------------------------------------ Init
\* A flag declared ready: var healthy int32 = 1.
InitReady ==
  /\ healthy = 1
  /\ quit = 0
  /\ done = FALSE
  /\ mainpc = "start"
  /\ sigpc = "wait"
  /\ orch = <<>>
  /\ ctx = "none"
  /\ keepAlives = TRUE
  /\ inShutdown = FALSE
  /\ listener = "none"
  /\ proc = "running"
  /\ stdout = {}
  /\ nlogged = 0
  /\ lastLine = <<>>
  /\ conn = [c \in Conns |-> Bare("none")]
  /\ now = ClockStart
  /\ nreqs = 0

\* The state at line 66: the channels exist, signal.Notify has run and the
\* signal goroutine has been started.
Init ==
  /\ healthy = 0
  /\ quit = 0
  /\ done = FALSE
  /\ mainpc = "start"
  /\ sigpc = "wait"
  /\ orch = <<>>
  /\ ctx = "none"
  /\ keepAlives = TRUE
  /\ inShutdown = FALSE
  /\ listener = "none"
  /\ proc = "running"
  /\ stdout = {}
  /\ nlogged = 0
  /\ lastLine = <<>>
  /\ conn = [c \in Conns |-> Bare("none")]
  /\ now = ClockStart
  /\ nreqs = 0

\* ------------------------------------------------------ the environment
\* The operating system delivers SIGINT or SIGTERM: signal.Notify sends on
\* quit without blocking.  A signal that finds the buffer full is dropped
\* and changes nothing, so only the others are steps.
Signal ==
  /\ Running
  /\ quit < QuitCap
  /\ quit' = quit + 1
  /\ UNCHANGED <<healthy, mainVars, sigVars, proc, stdout, reqVars, now>>

\* ---------------------------------------------------- the main goroutine
\* Lines 66-67: log "Server is ready", atomic.StoreInt32(&healthy, 1).
MainSetReady ==
  /\ Running
  /\ mainpc = "start"
  /\ stdout' = stdout \cup {"ready"}
  /\ healthy' = 1
  /\ mainpc' = "listen"
  /\ UNCHANGED <<listener, sigVars, proc, reqVars, envVars>>

\* Line 68, ListenAndServe: the server is already shutting down, so it
\* returns ErrServerClosed without binding.
MainListenClosed ==
  /\ Running
  /\ mainpc = "listen"
  /\ inShutdown
  /\ mainpc' = "waitdone"
  /\ UNCHANGED <<healthy, listener, sigVars, proc, stdout, reqVars, envVars>>

\* Line 68, ListenAndServe: the server is not shutting down, so it goes on
\* to net.Listen; Shutdown may begin before that call.
MainListenCheck ==
  /\ Running
  /\ mainpc = "listen"
  /\ ~inShutdown
  /\ mainpc' = "bind"
  /\ UNCHANGED <<healthy, listener, sigVars, proc, stdout, reqVars, envVars>>

\* Line 68, ListenAndServe: net.Listen binds the socket.
MainListenBound ==
  /\ Running
  /\ mainpc = "bind"
  /\ listener' = "open"
  /\ mainpc' = "serve"
  /\ UNCHANGED <<healthy, sigVars, proc, stdout, reqVars, envVars>>

\* A failed bind that is logged without ending the process, so that
\* ListenAndServe is tried again.
MainListenFailRetry ==
  /\ Running
  /\ mainpc = "bind"
  /\ stdout' = stdout \cup {"fatal_listen"}
  /\ UNCHANGED <<healthy, mainVars, sigVars, proc, reqVars, envVars>>

\* Lines 68-70: net.Listen fails, logger.Fatalf ends the process.
MainListenFail ==
  /\ Running
  /\ mainpc = "bind"
  /\ stdout' = stdout \cup {"fatal_listen"}
  /\ proc' = "fatal"
  /\ UNCHANGED <<healthy, mainVars, sigVars, reqVars, envVars>>

\* Line 68, Serve: the listener is registered and the accept loop starts,
\* unless Shutdown has begun meanwhile: then Serve closes the listener
\* and returns ErrServerClosed.
MainServe ==
  /\ Running
  /\ mainpc = "serve"
  /\ IF inShutdown
       THEN listener' = "closed" /\ mainpc' = "waitdone"
       ELSE listener' = listener /\ mainpc' = "serving"
  /\ UNCHANGED <<healthy, sigVars, proc, stdout, reqVars, envVars>>

\* Line 68: Shutdown has closed the listener, Accept fails and Serve
\* returns ErrServerClosed.
MainServeReturn ==
  /\ Running
  /\ mainpc = "serving"
  /\ listener = "closed"
  /\ mainpc' = "waitdone"
  /\ UNCHANGED <<healthy, listener, sigVars, proc, stdout, reqVars, envVars>>

\* A main that does not wait for done after ListenAndServe has returned.
MainNoWait ==
  /\ Running
  /\ mainpc = "waitdone"
  /\ stdout' = stdout \cup {"stopped"}
  /\ mainpc' = "returned"
  /\ proc' = "exited"
  /\ UNCHANGED <<healthy, listener, sigVars, reqVars, envVars>>

\* Lines 72-73: <-done, log "Server stopped", main returns.
MainWaitDone ==
  /\ Running
  /\ mainpc = "waitdone"
  /\ done
  /\ stdout' = stdout \cup {"stopped"}
  /\ mainpc' = "returned"
  /\ proc' = "exited"
  /\ UNCHANGED <<healthy, listener, sigVars, reqVars, envVars>>

\* -------------------------------------------------- the signal goroutine
\* A signal goroutine that receives from quit in a loop and starts over.
SigReceiveLoop ==
  /\ Running
  /\ sigpc \in {"wait", "blocked"}
  /\ quit > 0
  /\ quit' = quit - 1
  /\ stdout' = stdout \cup {"shutting_down"}
  /\ sigpc' = IF sigpc = "wait" THEN "store" ELSE "poll"
  /\ UNCHANGED <<healthy, mainVars, orch, ctx, keepAlives, inShutdown, done, proc,
                 reqVars, now>>

\* Lines 52-53: <-quit, log "Server is shutting down...".
SigReceive ==
  /\ Running
  /\ sigpc = "wait"
  /\ quit > 0
  /\ quit' = quit - 1
  /\ stdout' = stdout \cup {"shutting_down"}
  /\ sigpc' = "store"
  /\ UNCHANGED <<healthy, mainVars, orch, ctx, keepAlives, inShutdown, done, proc,
                 reqVars, now>>

\* Lines 54-57: atomic.StoreInt32(&healthy, 0), then the 30 s context.
SigStore ==
  /\ Running
  /\ sigpc = "store"
  /\ healthy' = 0
  /\ ctx' = "active"
  /\ orch' = Append(orch, "set_draining")
  /\ sigpc' = "keepalive"
  /\ UNCHANGED <<mainVars, keepAlives, inShutdown, done, proc, stdout, reqVars,
                 envVars>>

\* Line 59, server.SetKeepAlivesEnabled(false): keep-alives are marked as
\* disabled.  The idle connections are still open.
SigKeepAlive ==
  /\ Running
  /\ sigpc = "keepalive"
  /\ keepAlives' = FALSE
  /\ orch' = Append(orch, "keepalives_off")
  /\ sigpc' = "closeidle"
  /\ UNCHANGED <<healthy, mainVars, ctx, inShutdown, done, proc, stdout, reqVars,
                 envVars>>

\* Line 59, server.SetKeepAlivesEnabled(false) goes on: it closes the
\* connections that are idle now, and the stale new ones.
SigCloseIdle ==
  /\ Running
  /\ sigpc = "closeidle"
  /\ \E stale \in SUBSET {c \in Conns : conn[c].state = "new"} :
       \E orphaned \in SUBSET ({c \in Conns : conn[c].state = "idle"} \cup stale) :
         conn' = CloseIdleConns(stale, orphaned)
  /\ sigpc' = "shutdown"
  /\ UNCHANGED <<healthy, mainVars, orch, ctx, keepAlives, inShutdown, done, proc,
                 stdout, logVars, nreqs, envVars>>

\* Shutdown called before SetKeepAlivesEnabled(false).
SigShutdownEarly ==
  /\ Running
  /\ sigpc = "keepalive"
  /\ inShutdown' = TRUE
  /\ sigpc' = "closelisteners"
  /\ UNCHANGED <<healthy, mainVars, orch, ctx, keepAlives, done, proc, stdout,
                 reqVars, envVars>>

\* Line 60, entry of server.Shutdown: the server is marked as shutting
\* down.  The listener is still open: the accept loop goes on until the
\* next step.
SigShutdown ==
  /\ Running
  /\ sigpc = "shutdown"
  /\ inShutdown' = TRUE
  /\ sigpc' = "closelisteners"
  /\ UNCHANGED <<healthy, mainVars, orch, ctx, keepAlives, done, proc, stdout,
                 reqVars, envVars>>

\* Line 60, server.Shutdown takes the server's lock and closes the
\* listener Serve has registered.
SigCloseListeners ==
  /\ Running
  /\ sigpc = "closelisteners"
  /\ listener' = IF mainpc = "serving" /\ listener = "open" THEN "closed" ELSE listener
  /\ orch' = Append(orch, "listener_closed")
  /\ sigpc' = "poll"
  /\ UNCHANGED <<healthy, mainpc, ctx, keepAlives, inShutdown, done, proc, stdout,
                 reqVars, envVars>>

\* Line 60, one round of Shutdown's poll loop: idle connections, and new
\* ones that have sent nothing for 5 s (stale), are closed.  With no
\* connection left busy in the server's books Shutdown returns nil, the
\* deferred cancel runs and line 63 closes done; otherwise the goroutine
\* blocks on the poll timer and the context.
SigPoll ==
  /\ Running
  /\ sigpc = "poll"
  /\ \E stale \in SUBSET {c \in Conns : conn[c].state = "new"} :
     \E orphaned \in SUBSET ({c \in Conns : conn[c].state = "idle"} \cup stale) :
       /\ conn' = CloseIdleConns(stale, orphaned)
       /\ IF Quiescent(conn')
            THEN /\ done' = TRUE
                 /\ ctx' = "cancelled"
                 /\ sigpc' = "finished"
                 /\ orch' = AddOnce(orch, "drain_wait")
            ELSE /\ done' = done
                 /\ ctx' = ctx
                 /\ sigpc' = "blocked"
                 /\ orch' = AddOnce(AddOnce(orch, "drain_wait"), "busy")
  /\ UNCHANGED <<healthy, mainVars, keepAlives, inShutdown, proc, stdout, logVars,
                 nreqs, envVars>>

\* Line 60: the poll timer fires, Shutdown looks at the connections again.
SigPollTimer ==
  /\ Running
  /\ sigpc = "blocked"
  /\ sigpc' = "poll"
  /\ UNCHANGED <<healthy, mainVars, orch, ctx, keepAlives, inShutdown, done, proc,
                 stdout, reqVars, envVars>>

\* A Shutdown called with a context that never expires.
SigNoDeadline ==
  /\ FALSE
  /\ UNCHANGED vars

\* Lines 60-62: the 30 s of the context run out while Shutdown waits;
\* Shutdown returns context.DeadlineExceeded and logger.Fatalf ends the
\* process.  done is not closed.
SigDeadline ==
  /\ Running
  /\ sigpc = "blocked"
  /\ ctx' = "expired"
  /\ stdout' = stdout \cup {"fatal_shutdown"}
  /\ proc' = "fatal"
  /\ UNCHANGED <<healthy, mainVars, sigpc, orch, keepAlives, inShutdown, done,
                 reqVars, envVars>>

\* ------------------------------------------------------- the connections
\* An accept loop that goes on after the listener was closed.
AcceptAfterClose(c) ==
  /\ Running
  /\ mainpc \in {"serving", "waitdone"}
  /\ conn[c].state = "none"
  /\ conn' = [conn EXCEPT ![c] = Bare("new")]
  /\ UNCHANGED <<healthy, mainVars, sigVars, proc, stdout, logVars, nreqs,
                 envVars>>

\* The accept loop of Serve takes a new connection (http.StateNew).
Accept(c) ==
  /\ Running
  /\ mainpc = "serving"
  /\ listener = "open"
  /\ conn[c].state = "none"
  /\ conn' = [conn EXCEPT ![c] = Bare("new")]
  /\ UNCHANGED <<healthy, mainVars, sigVars, proc, stdout, logVars, nreqs,
                 envVars>>

\* A connection whose goroutine has a request to serve: one that arrives
\* now on a new or idle connection, or the one read before the server
\* closed the connection as idle.
HasRequest(c) == conn[c].state \in {"new", "idle", "orphan"}

\* The request on c is handed to the server's Handler.
ReadRequest(c) ==
  /\ HasRequest(c)
  /\ nreqs < MaxReqs
  /\ nreqs' = nreqs + 1

\* The request is "OPTIONS *": the server answers it itself with 200 and
\* does not call its Handler, so neither tracing nor logging nor the mux
\* runs.  The connection is active until ConnFinish.
GlobalOptionsHandler(c) ==
  /\ Running
  /\ HasRequest(c)
  /\ conn' = [conn EXCEPT ![c] =
               [Request("options", "OPTIONS", <<>>, "*") EXCEPT
                  !.status = 200,
                  !.outcome = "return",
                  !.tracked = conn[c].tracked]]
  /\ UNCHANGED <<healthy, mainVars, sigVars, proc, stdout, logVars, nreqs,
                 envVars>>

\* A client closes a connection on which no request is running, or the
\* server does: no request within ReadTimeout on a new connection, none
\* within IdleTimeout on an idle one (lines 42-44).
ConnDrop(c) ==
  /\ Running
  /\ conn[c].state \in {"new", "idle"}
  /\ conn' = [conn EXCEPT ![c] = Bare("closed")]
  /\ UNCHANGED <<healthy, mainVars, sigVars, proc, stdout, logVars, nreqs,
                 envVars>>

\* A request other than "OPTIONS *" arrives on the connection
\* (http.StateActive) and the server calls its Handler.  tracing, lines 171-177: the id is the inbound header
\* or, when that is absent or empty, a generated one (the clock is read
\* then, and reads t); it goes into the request context and the response
\* header, and the next handler is called: logging registers its deferred
\* function and calls the router.
TracingStage(c, method, hdr, path, t) ==
  /\ Running
  /\ ~(method = "OPTIONS" /\ path = "*")
  /\ ReadRequest(c)
  /\ IF HeaderGet(hdr) = "" THEN t >= now ELSE t = now
  /\ now' = t
  /\ LET requestID == TracingID(hdr, t) IN
       conn' = [conn EXCEPT ![c] =
                 [Request("handler", method, hdr, path) EXCEPT
                    !.ctxId = <<requestID>>,
                    !.respId = <<requestID>>,
                    !.tracked = conn[c].tracked]]
  /\ UNCHANGED <<healthy, mainVars, sigVars, proc, stdout, logVars, quit>>

\* A health handler that swaps the flag to 0 instead of loading it.
RouteHandlerSwapping(c, outcome) ==
  /\ Running
  /\ conn[c].state = "handler"
  /\ outcome = "panic" =>
       routes(conn[c].method, conn[c].path) \notin MuxHandlers \cup {"healthHandler"}
  /\ conn' = [conn EXCEPT ![c].status = IF outcome = "return"
                                          THEN HandlerStatus(conn[c].method, conn[c].path,
                                                             healthy)
                                          ELSE 0,
                          ![c].outcome = outcome,
                          ![c].state = "returned"]
  /\ healthy' = IF routes(conn[c].method, conn[c].path) = "healthHandler"
                  THEN 0 ELSE healthy
  /\ UNCHANGED <<mainVars, sigVars, proc, stdout, logVars, nreqs, envVars>>

\* The route handler runs to its end: it returns after writing its status,
\* or it panics (healthHandler, which only loads the flag and writes the
\* status, and the handlers of the mux itself do not).  healthHandler reads the
\* flag here.
RouteHandler(c, outcome) ==
  /\ Running
  /\ conn[c].state = "handler"
  /\ outcome = "panic" =>
       routes(conn[c].method, conn[c].path) \notin MuxHandlers \cup {"healthHandler"}
  /\ conn' = [conn EXCEPT ![c].status = IF outcome = "return"
                                          THEN HandlerStatus(conn[c].method, conn[c].path,
                                                             healthy)
                                          ELSE 0,
                          ![c].outcome = outcome,
                          ![c].state = "returned"]
  /\ UNCHANGED <<healthy, mainVars, sigVars, proc, stdout, logVars, nreqs,
                 envVars>>

\* A logging stage that logs after next.ServeHTTP instead of in a deferred
\* function: a panic skips the line.
LoggingOnReturn(c) ==
  /\ Running
  /\ conn[c].state = "returned"
  /\ IF conn[c].outcome = "return"
       THEN /\ lastLine' = <<LoggedID(conn[c].ctxId)>>
            /\ nlogged' = nlogged + 1
       ELSE UNCHANGED logVars
  /\ conn' = [conn EXCEPT ![c].state = "logged"]
  /\ UNCHANGED <<healthy, mainVars, sigVars, proc, stdout, nreqs, envVars>>

\* logging, lines 156-162: next.ServeHTTP has returned or panicked and the
\* deferred function writes the access-log line.  The request is still
\* inside the handler chain and its connection is still active.
LoggingDeferred(c) ==
  /\ Running
  /\ conn[c].state = "returned"
  /\ lastLine' = <<LoggedID(conn[c].ctxId)>>
  /\ nlogged' = nlogged + 1
  /\ conn' = [conn EXCEPT ![c].state = "logged"]
  /\ UNCHANGED <<healthy, mainVars, sigVars, proc, stdout, nreqs, envVars>>

\* The handler chain returns to the server (or the panic reaches it), or
\* the server has answered itself, and the server finishes the response: after a panic the connection is
\* closed; otherwise it is kept (http.StateIdle) when keep-alives are on,
\* the server is not shutting down, as both read now, the request did
\* not ask to close the connection (wantsClose: "Connection: close" or
\* HTTP/1.0) and the server has not closed the connection meanwhile; else
\* it is closed.
ConnFinish(c, wantsClose) ==
  /\ Running
  /\ conn[c].state \in {"logged", "options"}
  /\ conn' = [conn EXCEPT ![c] =
               IF conn[c].outcome = "return" /\ keepAlives /\ ~inShutdown
                  /\ ~wantsClose /\ conn[c].tracked
                 THEN Bare("idle") ELSE Bare("closed")]
  /\ UNCHANGED <<healthy, mainVars, sigVars, proc, stdout, logVars, nreqs,
                 envVars>>

\* ----------------------------------------------------------------- Next
Next ==
  \/ Signal
  \/ MainSetReady
  \/ MainListenClosed
  \/ MainListenCheck
  \/ MainListenBound
  \/ MainListenFail
  \/ MainServe
  \/ MainServeReturn
  \/ MainWaitDone
  \/ SigReceive
  \/ SigStore
  \/ SigKeepAlive
  \/ SigCloseIdle
  \/ SigShutdown
  \/ SigCloseListeners
  \/ SigPoll
  \/ SigPollTimer
  \/ SigDeadline
  \/ \E c \in Conns : Accept(c)
  \/ \E c \in Conns : ConnDrop(c)
  \/ \E c \in Conns : GlobalOptionsHandler(c)
  \/ \E c \in Conns, method \in Methods, hdr \in HeaderValues, path \in Paths,
        t \in ClockStart..MaxClock : TracingStage(c, method, hdr, path, t)
  \/ \E c \in Conns, outcome \in {"return", "panic"} : RouteHandler(c, outcome)
  \/ \E c \in Conns : LoggingDeferred(c)
  \/ \E c \in Conns, wantsClose \in BOOLEAN : ConnFinish(c, wantsClose)

Spec == Init /\ [][Next]_vars

\* ---------------------------------------------------------------- claims
IsHealth(c) == routes(conn[c].method, conn[c].path) = "healthHandler"
Generated(c) == HeaderGet(conn[c].hdr) = ""
Has(seq, e) == \E i \in 1..Len(seq) : seq[i] = e

\* The requests whose access-log line is not written yet.
Unlogged == {c \in Conns : conn[c].state \in {"handler", "returned"}}

\* C1: the liveness flag is monotone, 0 -> 1 -> 0: once the signal goroutine
\* has stored 0, no later state has healthy = 1, also when the signal
\* arrives before main stores 1.
C1_FlagNeverReadyAfterDraining == DrainStored => healthy = 0

\* C2: once the signal goroutine has stored healthy = 0, every health check
\* answered until the process exits gets 503, never 204.
C2_HealthCheckAfterDrainIs503 ==
  [][\A c \in Conns :
       (/\ DrainStored
        /\ IsHealth(c)
        /\ conn[c].state = "handler"
        /\ conn'[c].state = "returned") => conn'[c].status = 503]_vars

\* C3: done is closed only when no request is in flight, and the signal
\* goroutine ends the process while it drains only after the deadline has
\* expired: requests that finish before the deadline are not cut off, a
\* request on a connection the server closed as idle included.
C3_DoneOnlyAfterDrain ==
  /\ done => InFlight = {}
  /\ "fatal_shutdown" \in stdout => ctx = "expired"

\* C4: a drain deadline that expires with a request in flight is not fatal:
\* the process still reaches Stopped (done is closed, main logs "Server
\* stopped" and returns).
C4_DeadlineNotFatal == ctx = "expired" => proc # "fatal"

\* C5: the signal goroutine's steps are ordered: the store healthy = 0 comes
\* before keep-alives are disabled, that before Shutdown marks the server
\* as shutting down, that before Shutdown closes the listener (after which
\* no accept loop runs on an open listener), and that before the wait for
\* the in-flight requests.
C5_OrchestratorOrder ==
  /\ ~keepAlives => DrainStored
  /\ inShutdown => ~keepAlives
  /\ Has(orch, "listener_closed") => inShutdown
  /\ Has(orch, "listener_closed") => ~(mainpc = "serving" /\ listener = "open")
  /\ Has(orch, "drain_wait") => Has(orch, "listener_closed")
  /\ sigpc \in {"blocked", "finished"} => Has(orch, "drain_wait")
  /\ \A i \in 1..Len(orch) :
       orch[i] = <<"set_draining", "keepalives_off", "listener_closed",
                   "drain_wait", "busy">>[i]

\* All four steps have been taken and the goroutine waits for a request.
C5_Witness ==
  /\ sigpc = "blocked"
  /\ healthy = 0
  /\ listener = "closed"
  /\ InFlight # {}

\* C6 as stated: once the signal goroutine has stored healthy = 0, no
\* request starts its handler chain.
C6_NoRequestStartsAfterStore ==
  [][\A c \in Conns :
       (DrainStored /\ conn[c].state # "handler") => conn'[c].state # "handler"]_vars

\* C6 as amended: once Shutdown has closed the listener no connection is
\* accepted, so a request that starts its handler chain after that runs on
\* a connection accepted before.
C6_NoAcceptAfterListenerClose ==
  [][\A c \in Conns :
       (Has(orch, "listener_closed") /\ conn[c].state = "none")
         => conn'[c].state = "none"]_vars

\* The listener is closed while a client has not connected yet, and a
\* connection accepted before is serving a request.
C6_Witness ==
  /\ Has(orch, "listener_closed")
  /\ listener = "closed"
  /\ \E c \in Conns : conn[c].state = "none"
  /\ \E c \in Conns : conn[c].state = "handler"

\* C7: the orchestrator goes Starting -> Serving -> Draining -> Stopped:
\* Draining is entered only from Serving, with the socket bound and the
\* flag set ready, whenever the signal arrives.
C7_DrainingOnlyFromServing ==
  [][(sigpc = "wait" /\ sigpc' # "wait") =>
       (mainpc = "serving" /\ listener = "open" /\ healthy = 1)]_vars

\* C8: two requests in flight at the same time, both without an inbound
\* X-Request-Id, have different generated ids.
C8_GeneratedIdsUnique ==
  \A c, d \in InChain :
    (c # d /\ Generated(c) /\ Generated(d)) => conn[c].respId # conn[d].respId

\* C9: a request that has passed the tracing stage has exactly one
\* X-Request-Id on its response, not empty: the inbound value when that is
\* not empty, else the formatted clock reading nextRequestID returned; and
\* it has been handed to the next handler.
C9_ResponseHeaderSet ==
  \A c \in Conns :
    conn[c].state \in ChainStates =>
      /\ Len(conn[c].respId) = 1
      /\ conn[c].respId[1] # ""
      /\ ~Generated(c) => conn[c].respId[1] = conn[c].hdr[1]
      /\ Generated(c) =>
           \E t \in ClockStart..now : conn[c].respId[1] = nextRequestID(t)

\* One request came with an id, another with an empty header and got the
\* two-digit reading.
C9_Witness ==
  \E c, d \in InFlight :
    /\ conn[c].hdr = <<"abc">> /\ conn[c].respId = <<"abc">>
    /\ conn[d].hdr = <<"">> /\ conn[d].respId = <<FormatInt(MaxClock)>>

\* C10: every request that has entered the logging stage has exactly one
\* access-log line once the deferred function has run, and none before:
\* the lines written are as many as the requests handed to the chain less
\* those whose deferred function has not run yet; a line is written only
\* by the step that follows the return or the panic of a handler, one line
\* a step.
C10_OneLinePerRequest ==
  /\ [](nlogged = nreqs - Cardinality(Unlogged))
  /\ [][nlogged' # nlogged =>
          /\ nlogged' = nlogged + 1
          /\ \E c \in Conns : /\ conn[c].state = "returned"
                              /\ conn'[c].state = "logged"]_vars

\* A handler has panicked and its line is in the log, while the panic has
\* not reached the server yet.
C10_Witness ==
  /\ nlogged = 1
  /\ nreqs = 1
  /\ \E c \in Conns : conn[c].state = "logged" /\ conn[c].outcome = "panic"

\* ------------------------------------------- the logging stage on its own
\* logging(logger)(routes()) called without tracing around it (lines
\* 153-166 with a request context that holds nothing under requestIDKey):
\* the deferred function is registered and the router is called.
LoggingStage(c, method, hdr, path) ==
  /\ Running
  /\ ~(method = "OPTIONS" /\ path = "*")
  /\ ReadRequest(c)
  /\ conn' = [conn EXCEPT ![c] =
               [Request("handler", method, hdr, path) EXCEPT
                  !.tracked = conn[c].tracked]]
  /\ UNCHANGED <<healthy, mainVars, sigVars, proc, stdout, logVars, envVars>>

\* The steps of Next, with requests that reach the logging stage through
\* tracing, as main composes the stages, or directly.  A client may also
\* send the text of the sentinel as its X-Request-Id, and a request line
\* the mux answers itself.
NextLogging ==
  \/ Signal
  \/ MainSetReady
  \/ MainListenClosed
  \/ MainListenCheck
  \/ MainListenBound
  \/ MainListenFail
  \/ MainServe
  \/ MainServeReturn
  \/ MainWaitDone
  \/ SigReceive
  \/ SigStore
  \/ SigKeepAlive
  \/ SigCloseIdle
  \/ SigShutdown
  \/ SigCloseListeners
  \/ SigPoll
  \/ SigPollTimer
  \/ SigDeadline
  \/ \E c \in Conns : Accept(c)
  \/ \E c \in Conns : ConnDrop(c)
  \/ \E c \in Conns : GlobalOptionsHandler(c)
  \/ \E c \in Conns, hdr \in {<<>>, <<"abc">>} : LoggingStage(c, "GET", hdr, "/hello")
  \/ \E c \in Conns, hdr \in {<<"">>, <<"unknown">>} :
       TracingStage(c, "GET", hdr, "/hello", now)
  \/ \E c \in Conns, target \in OddTargets :
       TracingStage(c, target[1], <<"abc">>, target[2], now)
  \/ \E c \in Conns, outcome \in {"return", "panic"} : RouteHandler(c, outcome)
  \/ \E c \in Conns : LoggingDeferred(c)
  \/ \E c \in Conns, wantsClose \in BOOLEAN : ConnFinish(c, wantsClose)

SpecLogging == Init /\ [][NextLogging]_vars

\* The step in which the deferred function of logging writes c's line.
LogStep(c) == conn[c].state = "returned" /\ conn'[c].state # "returned"

\* The step in which c's route handler runs.
HandlerStep(c) == conn[c].state = "handler" /\ conn'[c].state = "returned"

\* C11: the id in a request's access-log line is the X-Request-Id the
\* tracing stage set on that request's response, also with other requests
\* in flight.
C11_LoggedIdIsResponseId ==
  [][\A c \in Conns : LogStep(c) => lastLine' = conn[c].respId]_vars

\* A line with one request's id is in the log while another request, with
\* another id, is in flight.
C11_Witness ==
  /\ lastLine = <<"abc">>
  /\ \E c \in InFlight : conn[c].respId = <<FormatInt(MaxClock)>>

\* C12: the health handler answers 204 exactly when the flag it reads is 1
\* and 503 otherwise: 503 for a flag not yet set ready, 204 after main has
\* set it and before a signal.
C12_HealthStatusFollowsFlag ==
  /\ [](healthHandler(0) = 503)
  /\ [][\A c \in Conns :
          (HandlerStep(c) /\ IsHealth(c)) =>
            /\ conn'[c].status \in {204, 503}
            /\ conn'[c].status = 204 <=> healthy = 1]_vars

\* One health check was answered 204 before any signal, another 503 while
\* the server drains.
C12_Witness ==
  \E c, d \in Conns :
    /\ IsHealth(c) /\ conn[c].status = 204
    /\ IsHealth(d) /\ conn[d].status = 503
    /\ DrainStored

\* C13: main returns normally (after logging "Server stopped") only once
\* done is closed, and done is closed only after Shutdown has returned nil;
\* main never returns while the signal goroutine still drains.
C13_ExitOnlyAfterDone ==
  /\ proc = "exited" => (done /\ "stopped" \in stdout /\ mainpc = "returned")
  /\ "stopped" \in stdout => done
  /\ done => (sigpc = "finished" /\ "fatal_shutdown" \notin stdout)

\* main has returned after a drain.
C13_Witness == mainpc = "returned" /\ "stopped" \in stdout /\ DrainStored

\* C14: a failed bind is fatal at once, whether or not a shutdown has begun
\* meanwhile: the process is ended in the step that finds the failure (a
\* single attempt), the socket was never bound, no connection was
\* accepted, no request handled, and main does not wait for done.
C14_BindFailureFatal ==
  "fatal_listen" \in stdout =>
    /\ proc = "fatal"
    /\ mainpc = "bind"
    /\ listener = "none"
    /\ nreqs = 0 /\ nlogged = 0
    /\ \A c \in Conns : conn[c].state = "none"
    /\ "stopped" \notin stdout

\* The bind failed after Shutdown had returned and done was closed.
C14_Witness == "fatal_listen" \in stdout /\ proc = "fatal" /\ inShutdown /\ done

\* C15 as stated: healthy = 1 implies that the socket has been bound.
C15_ReadyImpliesBound == healthy = 1 => listener # "none"

\* C15 as amended: main stores healthy = 1 right before it calls
\* ListenAndServe, so healthy = 1 implies only that main has passed line
\* 67; the socket may be unbound or the bind may fail.  No connection
\* exists before the socket is bound, so no health check reads the flag
\* before that.
C15_ReadyOnlyAfterStore ==
  /\ healthy = 1 => (mainpc # "start" /\ "ready" \in stdout)
  /\ \A c \in Conns : conn[c].state # "none" => listener # "none"

\* The flag is ready in a run whose bind has failed.
C15_Witness == healthy = 1 /\ listener = "none" /\ "fatal_listen" \in stdout

\* The request on c came through the tracing stage (which sets the header
\* on the response).
Traced(c) == conn[c].respId # <<>>

\* C16 as stated: a line shows "unknown" exactly when the request context
\* holds no id, and no request that came through tracing is logged as
\* "unknown".
C16_UnknownIffNoId ==
  [][\A c \in Conns :
       LogStep(c) =>
         /\ lastLine' = <<"unknown">> <=> conn[c].ctxId = <<>>
         /\ Traced(c) => lastLine' # <<"unknown">>]_vars

\* C16 as amended: the step of the logging stage that ends a request writes
\* one line, with the sentinel when the context holds no id and with the
\* id itself otherwise, before, during and after a drain; a request that
\* came through tracing has an id in its context, so its line shows
\* "unknown" only if the client sent that text as X-Request-Id.
C16_SentinelOnlyWithoutId ==
  [][\A c \in Conns :
       LogStep(c) =>
         /\ nlogged' = nlogged + 1
         /\ conn[c].ctxId = <<>> => lastLine' = <<"unknown">>
         /\ conn[c].ctxId # <<>> => lastLine' = conn[c].ctxId
         /\ Traced(c) =>
              /\ conn[c].ctxId # <<>>
              /\ lastLine' = <<"unknown">> => conn[c].hdr = <<"unknown">>]_vars

\* A request that reached logging without an id has been logged with the
\* sentinel while a traced request is in flight and the server drains.
C16_Witness ==
  /\ lastLine = <<"unknown">>
  /\ nlogged = 1
  /\ DrainStored
  /\ \E c \in InFlight : Traced(c) /\ conn[c].hdr = <<"">>

\* C17: handling a request never changes the liveness flag: the only steps
\* that change healthy are main's store of 1 (line 67) and the signal
\* goroutine's store of 0 (line 54); the steps of tracing, logging and the
\* route handlers, the health handler included, leave it as it is.
C17_OnlyOrchestratorWritesFlag ==
  [][/\ healthy' # healthy =>
          \/ mainpc = "start" /\ mainpc' = "listen" /\ healthy' = 1
          \/ sigpc = "store" /\ sigpc' = "keepalive" /\ healthy' = 0
     /\ (nreqs' # nreqs \/ nlogged' # nlogged \/ \E c \in Conns : HandlerStep(c))
          => healthy' = healthy]_vars

\* A health check has read the flag and answered 204, and the flag is
\* still 1.
C17_Witness ==
  /\ healthy = 1
  /\ \E c \in Conns : IsHealth(c) /\ conn[c].state = "returned" /\ conn[c].status = 204

\* C18: a signal that arrives after the signal goroutine has received one
\* changes nothing but the buffer of quit: the goroutine does not receive
\* again, so the signal stays in quit, the drain is neither restarted nor
\* shortened, the flag is unchanged and the process goes on.
C18_SecondSignalIgnored ==
  [][sigpc # "wait" =>
       /\ quit' >= quit
       /\ quit' # quit =>
            /\ quit' = quit + 1
            /\ UNCHANGED <<healthy, done, mainpc, sigpc, orch, ctx, keepAlives,
                           inShutdown, listener, proc, stdout, nlogged, lastLine,
                           conn, now, nreqs>>]_vars

\* A second signal sits in quit while the goroutine waits for a request to
\* finish, and the process runs.
C18_Witness == quit = 1 /\ sigpc = "blocked" /\ InFlight # {} /\ Running

\* ------------------------------------------------------------- fairness
\* The goroutines of main and of the signal handler are scheduled while
\* they can run, and the 30 s of the context pass: a Shutdown that keeps
\* waiting is ended by the deadline.  Nothing is assumed of the requests.
MainStep ==
  \/ MainSetReady \/ MainListenClosed \/ MainListenCheck \/ MainListenBound
  \/ MainListenFail
  \/ MainServe \/ MainServeReturn \/ MainWaitDone

SigStep ==
  \/ SigReceive \/ SigStore \/ SigKeepAlive \/ SigCloseIdle \/ SigShutdown
  \/ SigCloseListeners \/ SigPoll \/ SigPollTimer

\* The steps of Next, with requests of one kind: what a request asks for
\* has no part in whether the process ends; how far it gets has.
NextDrain ==
  \/ Signal
  \/ MainSetReady
  \/ MainListenClosed
  \/ MainListenCheck
  \/ MainListenBound
  \/ MainListenFail
  \/ MainServe
  \/ MainServeReturn
  \/ MainWaitDone
  \/ SigReceive
  \/ SigStore
  \/ SigKeepAlive
  \/ SigCloseIdle
  \/ SigShutdown
  \/ SigCloseListeners
  \/ SigPoll
  \/ SigPollTimer
  \/ SigDeadline
  \/ \E c \in Conns : Accept(c)
  \/ \E c \in Conns : ConnDrop(c)
  \/ \E c \in Conns : GlobalOptionsHandler(c)
  \/ \E c \in Conns : TracingStage(c, "GET", <<"abc">>, "/hello", now)
  \/ \E c \in Conns, outcome \in {"return", "panic"} : RouteHandler(c, outcome)
  \/ \E c \in Conns : LoggingDeferred(c)
  \/ \E c \in Conns, wantsClose \in BOOLEAN : ConnFinish(c, wantsClose)

SpecFair ==
  /\ Init
  /\ [][NextDrain]_vars
  /\ WF_vars(MainStep)
  /\ WF_vars(SigStep)
  /\ SF_vars(SigDeadline)

\* C19: once a signal has been delivered the process ends, whatever the
\* requests do and whenever the signal arrives: main returns after done is
\* closed, or a Fatalf exits.
C19_SignalLeadsToExit ==
  (quit > 0 \/ sigpc # "wait") ~> (proc \in {"exited", "fatal"})

\* The process has ended although a request never left its handler.
C19_Witness ==
  /\ proc = "fatal"
  /\ "fatal_shutdown" \in stdout
  /\ \E c \in Conns : conn[c].state = "handler"
====
